---- MODULE Spec2Model ----
(***************************************************************************)
(* Gene Ontology (GO) Term Mapper.                                         *)
(*                                                                         *)
(* The module models four pieces of the repository:                        *)
(*   - map_go_terms (service.py): the concurrent fan-out over req.ids with *)
(*     asyncio.gather and the shared `results` dict (specification Spec);  *)
(*   - filter_by_category (go_term_fetcher.py) (specification SpecFilter); *)
(*   - fetch_go_terms (go_term_fetcher.py) (specification SpecFetch);      *)
(*   - build_go_graph (visualiser.py) (specification SpecGraph).           *)
(***************************************************************************)
EXTENDS Integers, Sequences, FiniteSets, TLC

\* ------------------------------------------------------------------ bounds
\* Longest req.ids list explored.
MaxIds == 3
\* Longest go_terms list handed to filter_by_category.
MaxTerms == 3
\* Most gene keys in the go_data handed to build_go_graph.
MaxGenes == 2
\* Longest annotation list under one gene key of go_data.
MaxGraphTerms == 2
\* Longest `results` array in a response body of the external service.
MaxResults == 2

\* ------------------------------------------------------------- data model
\* Python's None (an absent Optional[str] field, an absent category).
None == "<None>"

\* GO_CATEGORIES: category code -> goAspect string.
GO_CATEGORIES ==
    [c \in {"BP", "MF", "CC"} |->
        CASE c = "BP" -> "biological_process"
          [] c = "MF" -> "molecular_function"
          [] c = "CC" -> "cellular_component"]

\* Annotation: the fields the program reads (goId, goName, goAspect); the other
\* nine Optional[str] fields are carried along untouched and are left out.
Ann(id, name, aspect) == [goId |-> id, goName |-> name, goAspect |-> aspect]

\* filter_by_category: identity when the category is no key of GO_CATEGORIES,
\* else the list comprehension, which walks go_terms front to back and appends
\* every record whose goAspect equals the mapped aspect.
\* Mutant of Comprehension: the matches are collected back to front.
RECURSIVE ComprehensionReversed(_, _)
ComprehensionReversed(go_terms, aspect) ==
    IF go_terms = <<>> THEN <<>>
    ELSE LET t == Head(go_terms)
             rest == ComprehensionReversed(Tail(go_terms), aspect)
         IN IF t.goAspect = aspect THEN rest \o <<t>> ELSE rest

RECURSIVE Comprehension(_, _)
Comprehension(go_terms, aspect) ==
    IF go_terms = <<>> THEN <<>>
    ELSE LET t == Head(go_terms)
             rest == Comprehension(Tail(go_terms), aspect)
         IN IF t.goAspect = aspect THEN <<t>> \o rest ELSE rest

\* Mutant of filter_by_category: the full aspect name is accepted as a category
\* too (the lookup falls back to the values of GO_CATEGORIES).
FilterByCodeOrAspect(go_terms, cat) ==
    IF cat \in DOMAIN GO_CATEGORIES THEN Comprehension(go_terms, GO_CATEGORIES[cat])
    ELSE IF \E c \in DOMAIN GO_CATEGORIES : GO_CATEGORIES[c] = cat
         THEN Comprehension(go_terms, cat)
    ELSE go_terms

filter_by_category(go_terms, cat) ==
    IF cat \notin DOMAIN GO_CATEGORIES THEN go_terms
    ELSE Comprehension(go_terms, GO_CATEGORIES[cat])

\* Python truthiness of req.category (Optional[str]): None and "" are falsy.
Truthy(cat) == cat # None /\ cat # ""

\* Mutant of Filtered: the category is ignored and the list stored unfiltered.
FilteredNever(terms, cat) == terms

\* Line 88 of map_go_terms.fetch_and_filter.
Filtered(terms, cat) ==
    IF Truthy(cat) THEN filter_by_category(terms, cat) ELSE terms

\* ------------------------------------------------- inputs of the aggregator
\* UniProt identifiers a request may carry.
Identifiers == {"P12345", "Q9H0H5", "P04637"}

\* req.category values: absent, empty, two recognized codes, an unrecognized one.
Categories == {None, "", "BP", "CC", "XX"}

\* Annotation lists the external service may answer with; two calls for the
\* same identifier may get different answers.
ServiceAnswers ==
    { << Ann("GO:0006103", "2-oxoglutarate metabolic process", "biological_process"),
         Ann("GO:0005739", "mitochondrion", "cellular_component") >>,
      << Ann("GO:0005739", "mitochondrion", "cellular_component") >> }

IdLists == UNION { [1..n -> Identifiers] : n \in 0..MaxIds }

VARIABLES
    ids,        \* req.ids
    category,   \* req.category
    task,       \* task[i]: the fetch_and_filter task of ids[i]: its pc and `terms`
    results,    \* the shared dict `results`: a function on the keys written so far
    outer,      \* the future asyncio.gather returns: pending / result / exception
    mapState,   \* map_go_terms itself: gathering / returned / raised
    requests,   \* requests[i]: outbound GETs issued for position i
    completed,  \* positions in the order their fetches completed (history)
    writes,     \* the writes to `results`, in order: [task, key] (history)
    fTerms,     \* filter_by_category: argument go_terms
    fCategory,  \* filter_by_category: argument category
    fPc,        \* filter_by_category: idle / called / returned
    fOut,       \* filter_by_category: the list returned
    gData,      \* build_go_graph: go_data, the dict's items in insertion order
    gPc,        \* build_go_graph: idle / called / done
    gOut,       \* build_go_graph: the graph returned, or the exception raised
    hUid,       \* fetch_go_terms: argument uniprot_id
    hPc,        \* fetch_go_terms: idle / called / awaiting / returned / raised
    hParams,    \* fetch_go_terms: query parameters of the GET issued
    hResp,      \* fetch_go_terms: the response received: [status, body]
    hOut        \* fetch_go_terms: the list returned (when hPc = "returned")

aggVars == <<ids, category, task, results, outer, mapState, requests, completed, writes>>

filterVars == <<fTerms, fCategory, fPc, fOut>>

graphVars == <<gData, gPc, gOut>>

fetchVars == <<hUid, hPc, hParams, hResp, hOut>>

vars == <<aggVars, filterVars, graphVars, fetchVars>>

\* The variables a map_go_terms, filter, graph or fetch step leaves alone.
notAgg == <<filterVars, graphVars, fetchVars>>
notFilter == <<aggVars, graphVars, fetchVars>>
notGraph == <<aggVars, filterVars, fetchVars>>
notFetch == <<aggVars, filterVars, graphVars>>

N == Len(ids)
Pos == 1..N

\* Mutant of DictSet: dict.setdefault, which keeps the value of a key that is
\* already present.
DictSetDefault(d, k, v) == [x \in DOMAIN d \cup {k} |-> IF x \in DOMAIN d THEN d[x] ELSE v]

\* dict assignment results[uid] = value (insert or overwrite).
DictSet(d, k, v) == [x \in DOMAIN d \cup {k} |-> IF x = k THEN v ELSE d[x]]

EmptyDict == [x \in {} |-> <<>>]

Terminal(i) == task[i].pc \in {"done", "failed"}

\* asyncio.gather(*coros): every coroutine is wrapped in a task at once; with no
\* coroutine at all gather returns a future that already holds the result [].
InitAgg ==
    /\ ids \in IdLists
    /\ category \in Categories
    /\ task = [i \in 1..Len(ids) |-> [pc |-> "created", terms |-> <<>>]]
    /\ results = EmptyDict
    /\ outer = IF Len(ids) = 0 THEN "result" ELSE "pending"
    /\ mapState = "gathering"
    /\ requests = [i \in 1..Len(ids) |-> 0]
    /\ completed = <<>>
    /\ writes = <<>>

\* First step of task i: fetch_go_terms builds the query and awaits client.get.
\* The event loop runs the tasks' first steps in creation order (call_soon is
\* FIFO), so task i starts once the tasks before it have started.
IssueRequest(i) ==
    /\ task[i].pc = "created"
    /\ \A j \in 1..(i-1) : task[j].pc # "created"
    /\ task' = [task EXCEPT ![i].pc = "awaiting"]
    /\ requests' = [requests EXCEPT ![i] = @ + 1]
    /\ UNCHANGED <<ids, category, results, outer, mapState, completed, writes, notAgg>>

\* Mutant of GatherCallback: gather(..., return_exceptions=True), where a failed
\* child counts as a result and the outer future never holds an exception.
GatherReturnExceptions(o, tasks, failedNow) ==
    IF o # "pending" THEN o
    ELSE IF \A j \in DOMAIN tasks : tasks[j].pc \in {"done", "failed"} THEN "result"
    ELSE o

\* Mutant of GatherCallback: a race (wait for FIRST_COMPLETED), where the first
\* child to finish settles the outer future.
GatherFirstCompleted(o, tasks, failedNow) ==
    IF o # "pending" THEN o
    ELSE IF failedNow THEN "exception"
    ELSE "result"

\* gather's done-callback for one child: the first exception is set on the
\* outer future at once; the result is set when the last child has finished.
\* Children that are still running are left alone (no cancellation).
GatherCallback(o, tasks, failedNow) ==
    IF o # "pending" THEN o
    ELSE IF failedNow THEN "exception"
    ELSE IF \A j \in DOMAIN tasks : tasks[j].pc \in {"done", "failed"} THEN "result"
    ELSE o

\* The response of position i arrives with a success status and a decodable
\* body: fetch_go_terms returns `terms`, the task filters and writes
\* results[uid], and finishes.  I/O completions are handled only after the
\* ready queue (all first steps) has run.
FetchSucceeds(i, terms) ==
    /\ task[i].pc = "awaiting"
    /\ \A j \in Pos : task[j].pc # "created"
    /\ task' = [task EXCEPT ![i] = [pc |-> "done", terms |-> terms]]
    /\ results' = DictSet(results, ids[i], Filtered(terms, category))
    /\ writes' = Append(writes, [task |-> i, key |-> ids[i]])
    /\ completed' = Append(completed, i)
    /\ outer' = GatherCallback(outer, task', FALSE)
    /\ UNCHANGED <<ids, category, mapState, requests, notAgg>>

\* Mutant of FetchFails: the failure is swallowed and an empty list stored.
FetchFailsStoresEmpty(i) ==
    /\ task[i].pc = "awaiting"
    /\ \A j \in 1..Len(ids) : task[j].pc # "created"
    /\ task' = [task EXCEPT ![i].pc = "failed"]
    /\ results' = [x \in DOMAIN results \cup {ids[i]} |-> IF x = ids[i] THEN <<>> ELSE results[x]]
    /\ writes' = Append(writes, [task |-> i, key |-> ids[i]])
    /\ completed' = Append(completed, i)
    /\ outer' = IF outer = "pending" THEN "exception" ELSE outer
    /\ UNCHANGED <<ids, category, mapState, requests, notAgg>>

\* Mutant of FetchFails: the failed fetch is retried (the task goes back to
\* issuing its request).
FetchFailsRetries(i) ==
    /\ task[i].pc = "awaiting"
    /\ \A j \in 1..Len(ids) : task[j].pc # "created"
    /\ requests[i] < 2
    /\ task' = [task EXCEPT ![i].pc = "created"]
    /\ UNCHANGED <<ids, category, results, outer, mapState, requests, completed, writes, notAgg>>

\* The response of position i is a non-success status or an undecodable body:
\* fetch_go_terms raises, nothing catches it in fetch_and_filter, the task ends
\* with the exception and writes nothing.
FetchFails(i) ==
    /\ task[i].pc = "awaiting"
    /\ \A j \in Pos : task[j].pc # "created"
    /\ task' = [task EXCEPT ![i].pc = "failed"]
    /\ completed' = Append(completed, i)
    /\ outer' = GatherCallback(outer, task', TRUE)
    /\ UNCHANGED <<ids, category, results, mapState, requests, writes, notAgg>>

\* map_go_terms resumes from `await asyncio.gather(...)`: with the result it
\* returns Result(results=results); with an exception it raises.
MapResumes ==
    /\ mapState = "gathering"
    /\ outer # "pending"
    /\ mapState' = IF outer = "result" THEN "returned" ELSE "raised"
    /\ UNCHANGED <<ids, category, task, results, outer, requests, completed, writes, notAgg>>

NextAgg ==
    \/ \E i \in Pos : IssueRequest(i)
    \/ \E i \in Pos : \E terms \in ServiceAnswers : FetchSucceeds(i, terms)
    \/ \E i \in Pos : FetchFails(i)
    \/ MapResumes

\* No map_go_terms call in progress.
IdleAgg ==
    /\ ids = <<>>
    /\ category = None
    /\ task = <<>>
    /\ results = EmptyDict
    /\ outer = "none"
    /\ mapState = "idle"
    /\ requests = <<>>
    /\ completed = <<>>
    /\ writes = <<>>

\* ------------------------------------------------------ filter_by_category
\* goAspect values of the records filtered: the three aspects, an absent
\* aspect, and a record whose aspect holds a category code.
FilterAspects ==
    {"biological_process", "molecular_function", "cellular_component", None, "BP"}

FilterAnnotations ==
    { Ann(g, None, a) : g \in {"GO:0006103", "GO:0005739"}, a \in FilterAspects }

\* Categories handed to the filter: the three codes, the empty string, a
\* lower-case code, a full aspect name, an unknown code, None.
FilterCategories ==
    {"BP", "MF", "CC", "", "bp", "biological_process", "XX", None}

TermLists == UNION { [1..n -> FilterAnnotations] : n \in 0..MaxTerms }

IdleFilter ==
    /\ fTerms = <<>>
    /\ fCategory = None
    /\ fPc = "idle"
    /\ fOut = <<>>

InitFilter ==
    /\ fTerms \in TermLists
    /\ fCategory \in FilterCategories
    /\ fPc = "called"
    /\ fOut = <<>>

\* The call filter_by_category(go_terms, category) runs and returns.
FilterReturns ==
    /\ fPc = "called"
    /\ fOut' = filter_by_category(fTerms, fCategory)
    /\ fPc' = "returned"
    /\ UNCHANGED <<fTerms, fCategory, notFilter>>

NextFilter == FilterReturns

\* ---------------------------------------------------------- build_go_graph
\* Annotations in go_data: a named term, a term without goName, a record
\* without goId.
GraphAnnotations ==
    { Ann("GO:0006103", "2-oxoglutarate metabolic process", "biological_process"),
      Ann("GO:0005739", None, "cellular_component"),
      Ann(None, "mitochondrion", "cellular_component") }

GraphTermLists == UNION { [1..n -> GraphAnnotations] : n \in 0..MaxGraphTerms }

\* go_data: a dict keyed by gene identifier (keys are unique), walked by
\* .items() in insertion order.
GoDatas ==
    UNION { { d \in [1..n -> [gene : Identifiers, terms : GraphTermLists]] :
                \A i, j \in 1..n : i # j => d[i].gene # d[j].gene }
            : n \in 0..MaxGenes }

\* nx.DiGraph(): no node, no edge.
EmptyGraph == [status |-> "ok", nodes |-> [x \in {} |-> <<>>], edges |-> {}]

\* DiGraph.add_node(n, **attr): None is refused with ValueError ("None cannot
\* be a node"); a new node gets the attributes, a known node has them updated.
\* Gene keys (UniProt accessions) and goIds ("GO:...") do not collide.
add_node(G, n, attr) ==
    IF G.status # "ok" THEN G
    ELSE IF n = None THEN [G EXCEPT !.status = "ValueError"]
    ELSE LET old == IF n \in DOMAIN G.nodes THEN G.nodes[n] ELSE [x \in {} |-> None]
             new == [k \in DOMAIN old \cup DOMAIN attr |->
                        IF k \in DOMAIN attr THEN attr[k] ELSE old[k]]
         IN [G EXCEPT !.nodes = [x \in DOMAIN G.nodes \cup {n} |->
                                    IF x = n THEN new ELSE G.nodes[x]]]

\* DiGraph.add_edge(u, v): None is refused with ValueError; missing end nodes
\* are added without attributes; the edge u -> v is added.
add_edge(G, u, v) ==
    IF G.status # "ok" THEN G
    ELSE IF u = None \/ v = None THEN [G EXCEPT !.status = "ValueError"]
    ELSE [G EXCEPT !.nodes = [x \in DOMAIN G.nodes \cup {u, v} |->
                                IF x \in DOMAIN G.nodes THEN G.nodes[x]
                                ELSE [y \in {} |-> None]],
                   !.edges = @ \cup {<<u, v>>}]

\* The inner loop of build_go_graph: for term in terms.
RECURSIVE AddTerms(_, _, _)
AddTerms(G, gene, terms) ==
    IF terms = <<>> \/ G.status # "ok" THEN G
    ELSE LET term == Head(terms)
             go_id == term.goId
             name == term.goName
             G1 == add_node(G, go_id, [label |-> name, type |-> "go_term"])
             G2 == add_edge(G1, gene, go_id)
         IN AddTerms(G2, gene, Tail(terms))

\* The outer loop of build_go_graph: for gene, terms in go_data.items().
RECURSIVE AddGenes(_, _)
AddGenes(G, items) ==
    IF items = <<>> \/ G.status # "ok" THEN G
    ELSE LET gene == Head(items).gene
             G1 == add_node(G, gene, [type |-> "gene"])
         IN AddGenes(AddTerms(G1, gene, Head(items).terms), Tail(items))

build_go_graph(go_data) == AddGenes(EmptyGraph, go_data)

IdleGraph ==
    /\ gData = <<>>
    /\ gPc = "idle"
    /\ gOut = EmptyGraph

InitGraph ==
    /\ gData \in GoDatas
    /\ gPc = "called"
    /\ gOut = EmptyGraph

\* The call build_go_graph(go_data) runs to its return or to the exception.
GraphBuilt ==
    /\ gPc = "called"
    /\ gOut' = build_go_graph(gData)
    /\ gPc' = "done"
    /\ UNCHANGED <<gData, notGraph>>

NextGraph == GraphBuilt

\* ---------------------------------------------------------- fetch_go_terms
\* JSON values, as resp.json() parses them.
JString(str) == [t |-> "string", s |-> str]
JNull == [t |-> "null"]
JNumber == [t |-> "number"]
JArray(items) == [t |-> "array", items |-> items]
JObject(members) == [t |-> "object", m |-> members]
EmptyMembers == [k \in {} |-> JNull]

\* Elements of a `results` array: annotation objects (complete, with fields
\* missing, with a null field and a field Annotation does not know), an object
\* whose goId is not a string, and an element that is no object.
ResultItems ==
    { JObject([goId |-> JString("GO:0006103"), goName |-> JString("2-oxoglutarate metabolic process"),
               goAspect |-> JString("biological_process")]),
      JObject([goId |-> JString("GO:0005739"), goAspect |-> JNull, extensions |-> JNull]),
      JObject(EmptyMembers),
      JObject([goId |-> JObject(EmptyMembers)]),
      JNumber }

\* Values under the `results` key: arrays, and the values that are no array.
ResultsValues ==
    { JArray(a) : a \in UNION { [1..n -> ResultItems] : n \in 0..MaxResults } }
        \cup { JNull, JNumber, JString(""), JString("GO"), JObject(EmptyMembers),
               JObject([goId |-> JString("GO:0006103")]) }

\* Response bodies: text that is no JSON, JSON that is no object, objects
\* without a `results` key, objects with one.
NotJson == [t |-> "unparseable"]

Bodies ==
    { NotJson, JArray(<<>>), JNull, JObject(EmptyMembers),
      JObject([messages |-> JArray(<<>>)]) }
        \cup { JObject([results |-> v, numberOfHits |-> JNumber]) : v \in ResultsValues }

\* HTTP status codes of the response (redirects are not followed by default).
Statuses == {200, 204, 301, 400, 404, 500}

\* Response.is_success.
is_success(status) == 200 <= status /\ status <= 299

\* One Optional[str] field of Annotation(**d): absent and null give None, a
\* string gives the string, anything else is a validation error.
Invalid == "<ValidationError>"

Field(members, key) ==
    IF key \notin DOMAIN members THEN None
    ELSE IF members[key].t = "null" THEN None
    ELSE IF members[key].t = "string" THEN members[key].s
    ELSE Invalid

\* Annotation(**d): d has to be a mapping (else TypeError) whose known fields
\* validate; unknown fields are ignored.
Decodable(d) ==
    /\ d.t = "object"
    /\ \A key \in {"goId", "goName", "goAspect"} : Field(d.m, key) # Invalid

Decode(d) == Ann(Field(d.m, "goId"), Field(d.m, "goName"), Field(d.m, "goAspect"))

\* What `for d in data["results"]` iterates over: the elements of an array,
\* the keys of an object, the characters of a string (both as strings); a
\* number or null cannot be iterated (TypeError).
Iterable(v) == v.t \in {"array", "object", "string"}

Elements(v) ==
    CASE v.t = "array" -> v.items
      [] v.t = "object" /\ DOMAIN v.m = {} -> <<>>
      [] v.t = "object" -> << JString("key") >>
      [] v.t = "string" /\ v.s = "" -> <<>>
      [] v.t = "string" -> << JString("char") >>

\* Mutant of ProcessResponse: raise_for_status is left out and a body without
\* usable results is answered with the empty list.
ProcessResponseLenient(resp) ==
    IF resp.body.t = "object" /\ "results" \in DOMAIN resp.body.m
       /\ resp.body.m["results"].t = "array"
       /\ \A k \in DOMAIN resp.body.m["results"].items :
             Decodable(resp.body.m["results"].items[k])
    THEN [raised |-> FALSE,
          value |-> [k \in DOMAIN resp.body.m["results"].items |->
                        Decode(resp.body.m["results"].items[k])]]
    ELSE [raised |-> FALSE, value |-> <<>>]

\* Lines 39-42 of fetch_go_terms: raise_for_status, json, data["results"], the
\* list comprehension over Annotation(**d).  Any exception leaves the function.
ProcessResponse(resp) ==
    LET Raise == [raised |-> TRUE, value |-> <<>>]
    IN IF ~is_success(resp.status) THEN Raise                   \* HTTPStatusError
       ELSE IF resp.body.t = "unparseable" THEN Raise           \* JSONDecodeError
       ELSE IF resp.body.t # "object" THEN Raise                \* TypeError
       ELSE IF "results" \notin DOMAIN resp.body.m THEN Raise   \* KeyError
       ELSE LET v == resp.body.m["results"]
            IN IF ~Iterable(v) THEN Raise                       \* TypeError
               ELSE IF \E k \in DOMAIN Elements(v) : ~Decodable(Elements(v)[k])
                    THEN Raise                                  \* TypeError, ValidationError
               ELSE [raised |-> FALSE,
                     value |-> [k \in DOMAIN Elements(v) |-> Decode(Elements(v)[k])]]

NoResponse == [status |-> 0, body |-> NotJson]

IdleFetch ==
    /\ hUid = None
    /\ hPc = "idle"
    /\ hParams = <<>>
    /\ hResp = NoResponse
    /\ hOut = <<>>

InitFetch ==
    /\ hUid \in Identifiers
    /\ hPc = "called"
    /\ hParams = <<>>
    /\ hResp = NoResponse
    /\ hOut = <<>>

\* Lines 32-38: the query is built and the GET awaited.
SendGet ==
    /\ hPc = "called"
    /\ hParams' = [geneProductId |-> <<"UniProtKB:", hUid>>, limit |-> "100"]
    /\ hPc' = "awaiting"
    /\ UNCHANGED <<hUid, hResp, hOut, notFetch>>

\* The response arrives and the rest of fetch_go_terms runs.
ResponseArrives(status, body) ==
    /\ hPc = "awaiting"
    /\ hResp' = [status |-> status, body |-> body]
    /\ LET r == ProcessResponse(hResp')
       IN /\ hPc' = IF r.raised THEN "raised" ELSE "returned"
          /\ hOut' = r.value
    /\ UNCHANGED <<hUid, hParams, notFetch>>

NextFetch ==
    \/ SendGet
    \/ \E status \in Statuses : \E body \in Bodies : ResponseArrives(status, body)

\* -------------------------------------------------------- specifications
\* map_go_terms: one request handled from the gather to the return.
Init == InitAgg /\ IdleFilter /\ IdleGraph /\ IdleFetch

Next == NextAgg

Spec == Init /\ [][Next]_vars

\* filter_by_category over the lists and categories drawn by InitFilter.
InitOfFilter == IdleAgg /\ InitFilter /\ IdleGraph /\ IdleFetch

SpecFilter == InitOfFilter /\ [][NextFilter]_vars

\* build_go_graph over the go_data drawn by InitGraph.
InitOfGraph == IdleAgg /\ IdleFilter /\ InitGraph /\ IdleFetch

SpecGraph == InitOfGraph /\ [][NextGraph]_vars

\* fetch_go_terms, one call, over the responses the service may give.
InitOfFetch == IdleAgg /\ IdleFilter /\ IdleGraph /\ InitFetch

SpecFetch == InitOfFetch /\ [][NextFetch]_vars

\* ---------------------------------------------------- claims on map_go_terms
Distinct == \A i, j \in Pos : i # j => ids[i] # ids[j]

AnyFailed == \E i \in Pos : task[i].pc = "failed"

\* The list the caller is to find under an identifier whose fetch returned
\* `terms`: the records of the requested aspect when the category is a
\* recognized code, else all of them.
ExpectedList(terms, cat) ==
    CASE cat = "BP" -> SelectSeq(terms, LAMBDA t : t.goAspect = "biological_process")
      [] cat = "MF" -> SelectSeq(terms, LAMBDA t : t.goAspect = "molecular_function")
      [] cat = "CC" -> SelectSeq(terms, LAMBDA t : t.goAspect = "cellular_component")
      [] OTHER -> terms

\* Index of position i in the completion order (0 when it has not completed).
CompletedAt(i) ==
    IF \E k \in DOMAIN completed : completed[k] = i
    THEN CHOOSE k \in DOMAIN completed : completed[k] = i
    ELSE 0

\* C1: in a batch of two or more identifiers, once the fetch of one identifier
\* has failed the aggregate call can only end in failure: gather's future holds
\* the exception, and map_go_terms never returns a Result (no partial mapping).
C1_FailureFailsBatch ==
    (N >= 2 /\ AnyFailed) =>
        /\ outer = "exception"
        /\ mapState # "returned"

\* C1 witness: a batch of two or more has raised although another identifier's
\* fetch succeeded and its list sits in `results`.
C1_Witness ==
    /\ N >= 2
    /\ mapState = "raised"
    /\ \E i \in Pos : task[i].pc = "done" /\ ids[i] \in DOMAIN results
    /\ AnyFailed

\* C2: for pairwise distinct identifiers whose fetches all succeed, the returned
\* mapping has exactly the input identifiers as keys and holds, under each, that
\* identifier's own fetched list (narrowed to the category's aspect when the
\* category is present, non-empty and recognized); the statement does not
\* mention the completion order, so it holds in every one.
C2_MappingPerIdentifier ==
    (mapState = "returned" /\ Distinct) =>
        /\ DOMAIN results = { ids[i] : i \in Pos }
        /\ \A i \in Pos : results[ids[i]] = ExpectedList(task[i].terms, category)

\* C2 witness: three distinct identifiers, category BP, the fetches completed in
\* the reverse of the input order with different answers, and the call returned.
C2_Witness ==
    /\ mapState = "returned"
    /\ Distinct
    /\ N = 3
    /\ category = "BP"
    /\ completed = <<3, 2, 1>>
    /\ task[1].terms # task[2].terms
    /\ results[ids[1]] # task[1].terms

C4_LastCompletedWins ==
    mapState = "returned" =>
        /\ Cardinality(DOMAIN results) = Cardinality({ ids[i] : i \in Pos })
        /\ \A i, j \in Pos :
              (i # j /\ ids[i] = ids[j] /\ CompletedAt(i) > CompletedAt(j)
               /\ \A k \in Pos : ids[k] = ids[i] => CompletedAt(k) <= CompletedAt(i))
              => results[ids[i]] = ExpectedList(task[i].terms, category)

\* C4 witness: the identifier at positions 1 and 2 got two different answers,
\* position 1 completed after position 2, and the returned mapping holds
\* position 1's list.
C4_Witness ==
    /\ mapState = "returned"
    /\ N >= 2
    /\ ids[1] = ids[2]
    /\ CompletedAt(1) > CompletedAt(2)
    /\ ExpectedList(task[1].terms, category) # ExpectedList(task[2].terms, category)
    /\ results[ids[1]] = ExpectedList(task[1].terms, category)
    /\ Cardinality(DOMAIN results) < N

\* C5 (as claimed): for every input list each task writes one key, no key is
\* written by two tasks and no key is written more than once.
C5_WriteOncePerKey ==
    \A a, b \in DOMAIN writes :
        a # b => writes[a].key # writes[b].key /\ writes[a].task # writes[b].task

\* C5 (amended): each task writes at most once, and only its own identifier's
\* key: once when its fetch has succeeded, never otherwise; so a key is written
\* once per successful occurrence of its identifier, and for a list of pairwise
\* distinct identifiers no key is written twice.
C5_OneWritePerTask ==
    /\ \A a \in DOMAIN writes : writes[a].key = ids[writes[a].task]
    /\ \A i \in Pos :
          Cardinality({ a \in DOMAIN writes : writes[a].task = i })
              = IF task[i].pc = "done" THEN 1 ELSE 0
    /\ Distinct => \A a, b \in DOMAIN writes : a # b => writes[a].key # writes[b].key

\* C5 witness: three distinct identifiers, two written (one write each), one failed.
C5_Witness ==
    /\ N = 3
    /\ Distinct
    /\ Len(writes) = 2
    /\ AnyFailed

\* Outbound requests issued so far, over all positions.
RECURSIVE SumUpTo(_, _)
SumUpTo(f, n) == IF n = 0 THEN 0 ELSE f[n] + SumUpTo(f, n - 1)

\* C10: no position's request is issued twice (no retry after a failure, no
\* second request whatever the other fetches did), a position that has started
\* has issued exactly one (duplicates are not served from a cache), and once
\* map_go_terms has finished or every task has completed exactly n requests
\* have been issued.
C10_OneRequestPerElement ==
    /\ \A i \in Pos : requests[i] = IF task[i].pc = "created" THEN 0 ELSE 1
    /\ (mapState # "gathering" \/ \A i \in Pos : Terminal(i)) => SumUpTo(requests, N) = N

\* C10 witness: a list with a repeated identifier, two of whose fetches failed,
\* has run to the end.
C10_Witness ==
    /\ N = 3
    /\ ids[1] = ids[3]
    /\ \A i \in Pos : Terminal(i)
    /\ mapState = "raised"
    /\ task[1].pc = "failed" /\ task[2].pc = "failed"
    /\ completed = <<2, 1, 3>>

\* -------------------------------------------------- claims on the filter
Recognized == {"BP", "MF", "CC"}

\* The aspect a recognized code stands for.
AspectOf(code) ==
    CASE code = "BP" -> "biological_process"
      [] code = "MF" -> "molecular_function"
      [] code = "CC" -> "cellular_component"

\* Occurrences of record r in the list s.
Count(s, r) == Cardinality({ k \in DOMAIN s : s[k] = r })

\* sub is a sub-sequence of s: its elements occur in s in the same order.
RECURSIVE IsSubSeq(_, _)
IsSubSeq(sub, s) ==
    IF sub = <<>> THEN TRUE
    ELSE IF s = <<>> THEN FALSE
    ELSE IF Head(sub) = Head(s) THEN IsSubSeq(Tail(sub), Tail(s))
    ELSE IsSubSeq(sub, Tail(s))

\* C6: for a category that is none of BP, MF, CC (the empty string, a
\* lower-case code, a full aspect name, None, an unknown code), the filter
\* returns its input list unchanged.
C6_UnrecognizedIsIdentity ==
    (fPc = "returned" /\ fCategory \notin Recognized) => fOut = fTerms

\* C6 witness: the filter returned a list of mixed aspects given the full
\* aspect name as the category.
C6_Witness ==
    /\ fPc = "returned"
    /\ fCategory = "biological_process"
    /\ Len(fTerms) = 3
    /\ fTerms[1].goAspect = "biological_process"
    /\ fTerms[2].goAspect = "molecular_function"
    /\ fTerms[3].goAspect = None
    /\ fOut = fTerms

\* C7: for a recognized code the filter returns exactly the sub-sequence of the
\* records whose goAspect is the code's aspect: every output record matches,
\* every matching record occurs in the output as often as in the input, the
\* output keeps the input's order, and records without a goAspect are left out.
C7_RecognizedKeepsMatches ==
    (fPc = "returned" /\ fCategory \in Recognized) =>
        /\ \A k \in DOMAIN fOut : fOut[k].goAspect = AspectOf(fCategory)
        /\ \A r \in FilterAnnotations :
              Count(fOut, r) = IF r.goAspect = AspectOf(fCategory) THEN Count(fTerms, r) ELSE 0
        /\ IsSubSeq(fOut, fTerms)

\* C7 witness: category MF over a list with two different matching records
\* around a record without goAspect; both matches are returned in order.
C7_Witness ==
    /\ fPc = "returned"
    /\ fCategory = "MF"
    /\ Len(fTerms) = 3
    /\ fTerms[1].goAspect = "molecular_function"
    /\ fTerms[2].goAspect = None
    /\ fTerms[3].goAspect = "molecular_function"
    /\ fTerms[1] # fTerms[3]
    /\ fOut = <<fTerms[1], fTerms[3]>>

\* ------------------------------------------------ claims on fetch_go_terms
FetchEnded == hPc \in {"returned", "raised"}

HasResultsKey(body) == body.t = "object" /\ "results" \in DOMAIN body.m

ResultsOf(body) == body.m["results"]

HasResultsArray(body) == HasResultsKey(body) /\ ResultsOf(body).t = "array"

\* An element that decodes to an Annotation: an object whose goId, goName and
\* goAspect are strings, null or missing.
AnnotationObject(d) ==
    /\ d.t = "object"
    /\ \A key \in {"goId", "goName", "goAspect"} :
          key \in DOMAIN d.m => d.m[key].t \in {"string", "null"}

\* The value Annotation gives a field of an annotation object: the string, or
\* None when the field is missing or null.
FieldValue(d, key) ==
    IF key \in DOMAIN d.m /\ d.m[key].t = "string" THEN d.m[key].s ELSE None

\* The three failures of the claim: a non-success status, a body that is no
\* JSON, a parsed body without a `results` key.
C8_FailureCases ==
    FetchEnded =>
        /\ ~(200 <= hResp.status /\ hResp.status <= 299) => hPc = "raised"
        /\ hResp.body = NotJson => hPc = "raised"
        /\ ~HasResultsKey(hResp.body) => hPc = "raised"

\* C8 (as claimed): the fetch raises on a non-success status, on a body that is
\* no JSON and on a body without `results`, and it returns a list only when the
\* status is a success and the body has a `results` array.
C8_ReturnsOnlyWithResultsArray ==
    /\ C8_FailureCases
    /\ hPc = "returned" =>
          /\ 200 <= hResp.status /\ hResp.status <= 299
          /\ HasResultsArray(hResp.body)

\* C8 (amended): the three failures as claimed, never turned into an empty or
\* partial list; a list is returned only when the status is a success and the
\* body is an object with a `results` key whose value is either an array of
\* annotation objects, every one of them decoded, or an empty string or empty
\* object, for which the empty list is returned.
C8_FailuresPropagate ==
    /\ C8_FailureCases
    /\ hPc = "raised" => hOut = <<>>
    /\ hPc = "returned" =>
          /\ 200 <= hResp.status /\ hResp.status <= 299
          /\ HasResultsKey(hResp.body)
          /\ \/ /\ ResultsOf(hResp.body).t = "array"
                /\ Len(hOut) = Len(ResultsOf(hResp.body).items)
                /\ \A k \in DOMAIN hOut :
                      /\ AnnotationObject(ResultsOf(hResp.body).items[k])
                      /\ hOut[k].goId = FieldValue(ResultsOf(hResp.body).items[k], "goId")
                      /\ hOut[k].goName = FieldValue(ResultsOf(hResp.body).items[k], "goName")
                      /\ hOut[k].goAspect = FieldValue(ResultsOf(hResp.body).items[k], "goAspect")
             \/ /\ ResultsOf(hResp.body) \in {JString(""), JObject(EmptyMembers)}
                /\ hOut = <<>>

\* C8 witness: a 200 response whose `results` array holds an annotation object
\* followed by an element that does not decode: the fetch raised, returning no
\* partial list.
C8_Witness ==
    /\ hPc = "raised"
    /\ hResp.status = 200
    /\ HasResultsArray(hResp.body)
    /\ Len(ResultsOf(hResp.body).items) = 2
    /\ AnnotationObject(ResultsOf(hResp.body).items[1])
    /\ ~AnnotationObject(ResultsOf(hResp.body).items[2])
    /\ hOut = <<>>

\* ------------------------------------------------ claims on build_go_graph
GeneKeys == { gData[i].gene : i \in DOMAIN gData }

\* The (gene, goId) pairs of go_data whose goId is present.
GeneTermPairs ==
    { p \in GeneKeys \X {"GO:0006103", "GO:0005739"} :
        \E i \in DOMAIN gData : \E k \in DOMAIN gData[i].terms :
            gData[i].gene = p[1] /\ gData[i].terms[k].goId = p[2] }

GraphAsSpecified ==
    /\ gOut.status = "ok"
    /\ DOMAIN gOut.nodes = GeneKeys \cup { p[2] : p \in GeneTermPairs }
    /\ gOut.edges = GeneTermPairs
    /\ \A n \in DOMAIN gOut.nodes :
          gOut.nodes[n]["type"] = IF n \in GeneKeys THEN "gene" ELSE "go_term"

\* C9 (as claimed): for every aggregation result, also one whose annotations
\* lack goId or goName, build_go_graph returns the graph with a 'gene' node per
\* identifier key, a 'go_term' node per distinct GO term id, and exactly the
\* edges from each identifier to its terms.
C9_GraphForEveryResult ==
    gPc = "done" => GraphAsSpecified

\* What the code does give (not a claim of the specification): the graph is as
\* specified whenever every annotation has a goId, and the call ends in
\* ValueError exactly when some annotation has none.
GraphWhenIdsPresent ==
    gPc = "done" =>
        IF \E i \in DOMAIN gData : \E k \in DOMAIN gData[i].terms :
              gData[i].terms[k].goId = None
        THEN gOut.status = "ValueError"
        ELSE GraphAsSpecified

====
